---- MODULE Spec2Model ----
(***************************************************************************)
(* Model of auto-llm-selector: the in-memory model catalog cache           *)
(* (src/src/cache.ts, InMemoryModelCache) and the router built on it       *)
(* (src/src/analytics/queue.ts, the AutoPromptRouter that works on model   *)
(* profiles).                                                              *)
(*                                                                         *)
(* JavaScript runs one callback at a time: every action below is the code  *)
(* that runs between two awaits of one call.  Several calls may be in      *)
(* flight at once; their awaits (the catalog fetch, the classification,    *)
(* the decision request) complete in any order.                            *)
(*                                                                         *)
(* Scores are percentages (0.3 is 30, 0.5 is 50); time is counted in weeks. *)
(***************************************************************************)
EXTENDS Integers, Sequences, FiniteSets, TLC

\* ------------------------------------------------------------------ bounds

\* Fetches of the catalog that may be started in one run.
MaxFetches == 2

\* Weeks the clock may advance after the start.
MaxElapsed == 2

\* ------------------------------------------------------- program constants

\* CACHE_TTL = 7 * 24 * 60 * 60 * 1000 ms: 1 week.
CACHE_TTL == 1

\* The minimum capability threshold of the category filter (0.3).
MinCapability == 30

\* The fixed confidence of a fallback selection (0.5).
FallbackConfidence == 50

\* Date.now() when the program starts: the epoch is far more than one TTL away.
StartTime == CACHE_TTL + 1

\* ------------------------------------------------------------ input domains

\* The calls that may be in flight at the same time.
Calls == {"c1", "c2"}

\* The categories the classifier answers with in this model (of PromptType).
PromptTypes == {"coding", "creative", "general"}

\* KNOWN_MODEL_PROFILES, for the models this model's catalogs list.
KNOWN_MODEL_PROFILES ==
  [m \in {"openai/gpt-3.5-turbo", "openai/gpt-4o", "anthropic/claude-3-opus"} |->
     CASE m = "openai/gpt-3.5-turbo" ->
            [coding |-> 75, creative |-> 70, general |-> 75, isReasoning |-> FALSE]
       [] m = "openai/gpt-4o" ->
            [coding |-> 95, creative |-> 90, general |-> 95, isReasoning |-> TRUE]
       [] m = "anthropic/claude-3-opus" ->
            [coding |-> 92, creative |-> 95, general |-> 93, isReasoning |-> TRUE]]

ModelIds == DOMAIN KNOWN_MODEL_PROFILES

\* A descriptor without pricing: ModelProfiler.createModelProfile throws on it.
MalformedId == "acme/no-pricing"

\* A model KNOWN_MODEL_PROFILES does not list: its profile is inferred.
InferredId == "openrouter/auto"

\* The descriptors of the feed: context_length in tokens, pricing in
\* nano-dollars per token (the feed prices its own router model at "-1").
ModelInfos ==
  [m \in ModelIds \cup {InferredId} |->
     CASE m = "openai/gpt-3.5-turbo" ->
            [context_length |-> 16385, prompt |-> 500, completion |-> 1500]
       [] m = "openai/gpt-4o" ->
            [context_length |-> 128000, prompt |-> 2500, completion |-> 10000]
       [] m = "anthropic/claude-3-opus" ->
            [context_length |-> 200000, prompt |-> 15000, completion |-> 75000]
       [] m = InferredId ->
            [context_length |-> 2000000, prompt |-> -1000000000,
             completion |-> -1000000000]]

\* The catalogs the model source feed may answer with (data.data, in order).
Catalogs ==
  { <<>>,
    <<"openai/gpt-3.5-turbo">>,
    <<"anthropic/claude-3-opus", MalformedId, "openai/gpt-4o", InferredId>> }

\* The ways the catalog fetch fails before the cache is touched: fetch() rejects,
\* or the response is not ok.
FetchErrors == {"NetworkError", "OpenRouterAPIError"}

\* An id the decision collaborator may make up.
NotARealId == "not-a-real-id"

\* What the decision collaborator may answer: a failure, or a JSON object
\* naming a model and a confidence; one answer's confidence is 1.5.
LLMFailures == {"TransportError", "Non2xx", "EmptyContent", "Unparsable"}
LLMConfidences == {85}
LLMAnswers ==
  [kind : LLMFailures, model : {"none"}, confidence : {0}]
    \cup [kind : {"Json"}, model : ModelIds \cup {NotARealId}, confidence : LLMConfidences]
    \cup [kind : {"Json"}, model : {"openai/gpt-3.5-turbo"}, confidence : {150}]

\* properties.tokenLimit of a request: above the context length of the
\* smallest model of the catalogs and below those of the others.  The router
\* copies it into the selection prompt and reads it nowhere else.
TokenLimits == {100000}

\* The PromptProperties of a request, as far as the router reads them.
PromptPropertiesSet == [reasoning : BOOLEAN, tokenLimit : TokenLimits]

\* A RouterConfig that names no provider: the empty set is a list not given.
NoProviderLists == [allowedProviders |-> {}, blockedProviders |-> {}]

\* The RouterConfigs that name providers: a whitelist, a blacklist, and both.
ProviderConfigs ==
  { [allowedProviders |-> {"anthropic"}, blockedProviders |-> {}],
    [allowedProviders |-> {}, blockedProviders |-> {"openai"}],
    [allowedProviders |-> {"openai"}, blockedProviders |-> {"openai"}] }

\* Initializations of the semantic classifier that may be started in one run.
MaxInits == 2

\* Events given to the analytics queue in one run.
MaxEvents == 5

\* config.batchSize (50 by default), scaled down.
BatchSize == 2

\* -------------------------------------------------------------------- state

VARIABLES
  profileCache,   \* InMemoryModelCache.profileCache: the entries in insertion order
  lastFetched,    \* InMemoryModelCache.lastFetched
  now,            \* Date.now(), in weeks
  isInitialized,  \* AutoPromptRouter.isInitialized
  fetchCount,     \* catalog fetches started so far: the last fetch's generation
  calls,          \* the calls in flight: each one's position and locals
  delivered,      \* what the call that ended last gave its caller
  populated,      \* history: a rebuild has stored at least one profile
  config          \* AutoPromptRouter.config: the provider lists it was given

routerVars ==
  <<profileCache, lastFetched, now, isInitialized, fetchCount, calls, delivered,
    populated, config>>

VARIABLES
  initialized,            \* SemanticClassifier.initialized
  initializationPromise,  \* SemanticClassifier.initializationPromise: 0 is null
  promises,               \* each initialization promise: pending, ok or failed
  performed,              \* performInitialization runs started so far
  embedderModel,          \* SemanticEmbedder.model is loaded
  referenceInitialized,   \* ReferenceEmbeddingManager.initialized
  classificationCache,    \* embeddingCache's classification of the string prompt
  classifierCalls,        \* the classifier calls in flight
  classified              \* what the classifier call that ended last gave

classifierVars ==
  <<initialized, initializationPromise, promises, performed, embedderModel,
    referenceInitialized, classificationCache, classifierCalls, classified>>

VARIABLES
  queue,         \* AnalyticsQueue.queue: the number of events in it
  isProcessing,  \* AnalyticsQueue.isProcessing
  flushTimer,    \* AnalyticsQueue.flushTimer is armed
  uploads,       \* uploads of a batch in flight
  enqueued,      \* events given to enqueue so far
  shutdownPc,    \* shutdown(): idle, awaiting processBatch, or resolved
  lastBatch,     \* how the upload and the processBatch that ended last settled
  tracked,       \* the prompt request tracked last and the data of its event
  acceptedInFlight \* the last event accepted while a batch was in flight

analyticsVars ==
  <<queue, isProcessing, flushTimer, uploads, enqueued, shutdownPc, lastBatch,
    tracked, acceptedInFlight>>

VARIABLES
  keywordCall,           \* the keyword classification made last: prompt, result
  embeddingEntries,      \* InMemoryEmbeddingCache.embeddingCache: key -> entry
  classificationEntries, \* InMemoryEmbeddingCache.classificationCache
  lookup                 \* the get made last: its text and what it returned

textCacheVars == <<embeddingEntries, classificationEntries, lookup>>

functionVars == <<keywordCall, textCacheVars>>

vars == <<routerVars, classifierVars, analyticsVars, functionVars>>

\* A call slot no call uses.
IdleCall ==
  [kind |-> "none", pc |-> "idle", reasoning |-> FALSE, tokenLimit |-> 0,
   stale |-> FALSE, cleared |-> FALSE,
   gen |-> 0, list |-> <<>>, category |-> "none", candidates |-> <<>>]

\* No call has ended yet.
Nothing ==
  [kind |-> "none", status |-> "none", stale |-> FALSE, list |-> <<>>,
   llm |-> "none", model |-> "none", confidence |-> 0,
   cause |-> "none", error |-> "none"]

\* ------------------------------------------------------------ the profiler

\* ModelProfiler.extractProvider: the part of the id before the slash.
extractProvider(id) ==
  CASE id \in {"openai/gpt-3.5-turbo", "openai/gpt-4o"} -> "openai"
    [] id = "anthropic/claude-3-opus" -> "anthropic"
    [] id = InferredId -> "openrouter"
    [] OTHER -> "unknown"

\* ModelProfiler.inferCapabilities for a provider and a family that get no
\* adjustment: 0.5 plus the cost bonus, Math.min(avgCost * 1000, 0.15), and
\* at most 1.  The bonus has no lower limit.
inferCapabilities(id) ==
  LET avgCost == (ModelInfos[id].prompt + ModelInfos[id].completion) \div 2
      bonus == avgCost \div 10000
      costBonus == IF bonus < 15 THEN bonus ELSE 15
      capability == IF 50 + costBonus < 100 THEN 50 + costBonus ELSE 100
  IN  [coding |-> capability, creative |-> capability, general |-> capability]

\* ModelProfiler.inferReasoningCapability: the family is none of gpt-4,
\* claude-3, claude-2, llama-3, gemini.
inferReasoningCapability(id) == FALSE

\* ModelProfiler.calculateInferredConfidence for a provider that is none of
\* openai, anthropic, google and a short description: 0.4, at most 0.8.
calculateInferredConfidence(id) == IF 40 < 80 THEN 40 ELSE 80

\* ModelProfiler.createModelProfile: the capabilities and characteristics of a
\* descriptor (a pure function of it), known or inferred.
createModelProfile(id) ==
  IF id \in ModelIds
    THEN [coding |-> KNOWN_MODEL_PROFILES[id].coding,
          creative |-> KNOWN_MODEL_PROFILES[id].creative,
          general |-> KNOWN_MODEL_PROFILES[id].general,
          isReasoning |-> KNOWN_MODEL_PROFILES[id].isReasoning,
          profileConfidence |-> 95,
          provider |-> extractProvider(id),
          contextLength |-> ModelInfos[id].context_length]
    ELSE [coding |-> inferCapabilities(id).coding,
          creative |-> inferCapabilities(id).creative,
          general |-> inferCapabilities(id).general,
          isReasoning |-> inferReasoningCapability(id),
          profileConfidence |-> calculateInferredConfidence(id),
          provider |-> extractProvider(id),
          contextLength |-> ModelInfos[id].context_length]

\* Whether createModelProfile returns (it throws reading the pricing of a
\* descriptor that has none).
ProfileCreated(id) == id # MalformedId

\* profile.capabilities[categoryKey], as a percentage.
Capability(id, category) ==
  CASE category = "coding" -> createModelProfile(id).coding
    [] category = "creative" -> createModelProfile(id).creative
    [] OTHER -> createModelProfile(id).general

\* ---------------------------------------------------------------- the cache

\* Map.set: a new key goes last, a known key keeps its place.
MapSet(m, e) ==
  IF \E i \in 1..Len(m) : m[i].id = e.id
    THEN [i \in 1..Len(m) |-> IF m[i].id = e.id THEN e ELSE m[i]]
    ELSE Append(m, e)

\* The loop of fetchAndCacheProfiles over data.data: each descriptor is
\* profiled and stored, one that cannot be profiled is skipped.
RECURSIVE StoreProfiles(_, _, _)
StoreProfiles(m, data, gen) ==
  IF data = <<>> THEN m
  ELSE StoreProfiles(
         IF ProfileCreated(Head(data))
           THEN MapSet(m, [id |-> Head(data), gen |-> gen])
           ELSE m,
         Tail(data), gen)

\* The mutant: the rebuild does not clear the mapping first.
RebuildKeepingOld(data, gen) == StoreProfiles(profileCache, data, gen)

\* profileCache.clear() and the loop: the mapping after a rebuild from data.
Rebuild(data, gen) == StoreProfiles(<<>>, data, gen)

\* The mapping is empty, or more than the TTL has passed since the last rebuild.
EmptyOrExpired ==
  profileCache = <<>> \/ now - lastFetched > CACHE_TTL

\* The mutant: getModelProfiles fetches on every call.
NeedsFetchAlways == TRUE

\* The mutant: a cache that expires at the TTL, not after it.
NeedsFetchAtTTL ==
  Len(profileCache) = 0 \/ now - lastFetched >= CACHE_TTL

\* The condition of getModelProfiles: the mapping is empty or older than the TTL.
NeedsFetch ==
  Len(profileCache) = 0 \/ now - lastFetched > CACHE_TTL




\* getModelProfiles up to its first await.  With NeedsFetch it calls
\* fetchAndCacheProfiles, which sends the request and waits for the answer;
\* otherwise it returns the values of the mapping as they are now.
EnterGetModelProfiles(c, call) ==
  IF NeedsFetch
    THEN /\ fetchCount < MaxFetches
         /\ fetchCount' = fetchCount + 1
         /\ calls' = [calls EXCEPT ![c] =
              [call EXCEPT !.pc = "fetching", !.gen = fetchCount + 1]]
    ELSE /\ fetchCount' = fetchCount
         /\ calls' = [calls EXCEPT ![c] =
              [call EXCEPT !.pc = "resolved", !.list = profileCache]]

\* What reaches the caller when the call throws err.  The catch block of
\* initialize and the one of getModelRecommendation throw an error of their
\* own in place of the one they caught.
ErrorToCaller(kind, err) ==
  CASE kind = "init" -> "InitializeFailed"
    [] kind = "rec" -> "RecommendationFailed"
    [] OTHER -> err

\* The call ends with an error thrown inside its try block.
Thrown(call, cause) ==
  [Nothing EXCEPT !.kind = call.kind, !.status = "error", !.stale = call.stale,
                  !.cause = cause, !.error = ErrorToCaller(call.kind, cause)]

\* The call ends with a value.
Returned(call) ==
  [Nothing EXCEPT !.kind = call.kind, !.status = "ok", !.stale = call.stale]

\* The call in slot c ends and its caller gets result.
Finish(c, result) ==
  /\ calls' = [calls EXCEPT ![c] = IdleCall]
  /\ delivered' = result

\* --------------------------------------------------------------- the router

\* Step 2 of getModelRecommendation: the reasoning filter.
availableProfiles(allProfiles, reasoning) ==
  LET IsReasoning(e) == createModelProfile(e.id).isReasoning
  IN  IF reasoning THEN SelectSeq(allProfiles, IsReasoning) ELSE allProfiles

\* The mutant: the category filter lets every profile pass.
categoryProfilesUnfiltered(available, category) == available

\* Step 4 of getModelRecommendation: the category filter.
categoryProfiles(available, category) ==
  LET Capable(e) == Capability(e.id, category) >= MinCapability
  IN  SelectSeq(available, Capable)

\* The ids of a list of cache entries, in order.
Ids(list) == [i \in 1..Len(list) |-> list[i].id]

\* Array.prototype.sort with (a, b) => b.categoryScore - a.categoryScore: a
\* stable sort, highest category score first.
RECURSIVE SortByScore(_, _)
SortByScore(ids, category) ==
  IF ids = <<>> THEN <<>>
  ELSE LET rest == SortByScore(Tail(ids), category)
           h == Head(ids)
           Before(x) == Capability(x, category) > Capability(h, category)
           NotBefore(x) == ~Before(x)
       IN  SelectSeq(rest, Before) \o <<h>> \o SelectSeq(rest, NotBefore)

\* profileInfo of getLLMDecisionWithProfiles: the candidates as the selection
\* prompt lists them.
profileInfo(candidates, category) == SortByScore(candidates, category)

\* The mutant: the catch block throws the collaborator's error again.
FallbackRethrows(candidates) ==
  [status |-> "error", model |-> "none", confidence |-> 0,
   cause |-> "DecisionCollaboratorError"]

\* The catch block of getLLMDecisionWithProfiles: the first candidate, with
\* confidence 0.5; it throws when there is no candidate.
FallbackSelection(candidates) ==
  IF candidates = <<>>
    THEN [status |-> "error", model |-> "none", confidence |-> 0,
          cause |-> "NoSuitableModelsForRequirements"]
    ELSE [status |-> "ok", model |-> candidates[1],
          confidence |-> FallbackConfidence, cause |-> "none"]

\* The try block of getLLMDecisionWithProfiles on the collaborator's answer:
\* a parsed answer is returned as it is, anything else goes to the catch block.
DecisionResult(candidates, ans) ==
  IF ans.kind = "Json"
    THEN [status |-> "ok", model |-> ans.model, confidence |-> ans.confidence,
          cause |-> "none"]
    ELSE FallbackSelection(candidates)

\* ----------------------------------------------------------------- actions

\* router.getAvailableModels(): cache.getModelProfiles() for the caller.
GetAvailableModels(c) ==
  /\ calls[c].pc = "idle"
  /\ UNCHANGED <<config, classifierVars, analyticsVars, functionVars>>
  /\ EnterGetModelProfiles(c,
       [IdleCall EXCEPT !.kind = "profiles", !.stale = EmptyOrExpired])
  /\ UNCHANGED <<profileCache, lastFetched, now, isInitialized, delivered, populated>>

\* The mutant: initialize sets isInitialized before it awaits the profiles.
InitializeEarly(c) ==
  /\ calls[c].pc = "idle"
  /\ UNCHANGED <<config, classifierVars, analyticsVars, functionVars>>
  /\ EnterGetModelProfiles(c,
       [IdleCall EXCEPT !.kind = "init", !.stale = EmptyOrExpired])
  /\ isInitialized' = TRUE
  /\ UNCHANGED <<profileCache, lastFetched, now, delivered, populated>>

\* router.initialize() up to its await of getModelProfiles.
InitializeStart(c) ==
  /\ calls[c].pc = "idle"
  /\ UNCHANGED <<config, classifierVars, analyticsVars, functionVars>>
  /\ EnterGetModelProfiles(c,
       [IdleCall EXCEPT !.kind = "init", !.stale = EmptyOrExpired])
  /\ UNCHANGED <<profileCache, lastFetched, now, isInitialized, delivered, populated>>

\* router.getModelRecommendation(prompt, properties) up to its first await: the
\* isInitialized check (its error is thrown outside the try block), then
\* getModelProfiles.
RecommendStart(c, properties) ==
  /\ calls[c].pc = "idle"
  /\ UNCHANGED <<config, classifierVars, analyticsVars, functionVars>>
  /\ IF ~isInitialized
       THEN /\ Finish(c, [Nothing EXCEPT !.kind = "rec", !.status = "error",
                            !.cause = "NotInitialized", !.error = "NotInitialized"])
            /\ fetchCount' = fetchCount
       ELSE /\ EnterGetModelProfiles(c,
                 [IdleCall EXCEPT !.kind = "rec",
                                  !.reasoning = properties.reasoning,
                                  !.tokenLimit = properties.tokenLimit,
                                  !.stale = EmptyOrExpired])
            /\ delivered' = delivered
  /\ UNCHANGED <<profileCache, lastFetched, now, isInitialized, populated>>

\* fetchAndCacheProfiles after its awaits, the response being ok and holding
\* data: the mapping is cleared and rebuilt, lastFetched is set.
FetchOk(c, data) ==
  /\ calls[c].pc = "fetching"
  /\ UNCHANGED <<config, classifierVars, analyticsVars, functionVars>>
  /\ profileCache' = Rebuild(data, calls[c].gen)
  /\ lastFetched' = now
  /\ populated' = (populated \/ profileCache' # <<>>)
  /\ calls' = [calls EXCEPT ![c].pc = "rebuilt", ![c].cleared = FALSE]
  /\ UNCHANGED <<now, isInitialized, fetchCount, delivered>>

\* The mutant: a failed fetch leaves the cache cleared.
FetchFailClearing(c, err) ==
  /\ calls[c].pc = "fetching"
  /\ UNCHANGED <<config, classifierVars, analyticsVars, functionVars>>
  /\ profileCache' = <<>>
  /\ lastFetched' = 0
  /\ Finish(c, Thrown(calls[c], err))
  /\ UNCHANGED <<now, isInitialized, fetchCount, populated>>

\* fetchAndCacheProfiles when fetch() rejects or the response is not ok: the
\* error is logged and thrown again, before the mapping is touched.
FetchFail(c, err) ==
  /\ calls[c].pc = "fetching"
  /\ UNCHANGED <<config, classifierVars, analyticsVars, functionVars>>
  /\ Finish(c, Thrown(calls[c], err))
  /\ UNCHANGED <<profileCache, lastFetched, now, isInitialized, fetchCount, populated>>

\* fetchAndCacheProfiles when the response is ok and its body has no data
\* array: the mapping is cleared, then the loop over data.data throws.
FetchNoData(c) ==
  /\ calls[c].pc = "fetching"
  /\ UNCHANGED <<config, classifierVars, analyticsVars, functionVars>>
  /\ profileCache' = <<>>
  /\ Finish(c, Thrown(calls[c], "TypeError"))
  /\ UNCHANGED <<lastFetched, now, isInitialized, fetchCount, populated>>

\* The list getModelProfiles gives the call in slot c: the values of the
\* mapping when getModelProfiles returns (at once without a fetch, after
\* fetchAndCacheProfiles with one).
allProfiles(c) ==
  IF calls[c].pc = "rebuilt" THEN profileCache ELSE calls[c].list

\* The caller's code after its await of getModelProfiles.  getAvailableModels
\* returns the list; initialize sets isInitialized; getModelRecommendation
\* applies the reasoning filter and starts the classification.
Resume(c) ==
  /\ calls[c].pc \in {"rebuilt", "resolved"}
  /\ UNCHANGED <<config, classifierVars, analyticsVars, functionVars>>
  /\ CASE calls[c].kind = "profiles" ->
            /\ Finish(c, [Returned(calls[c]) EXCEPT !.list = allProfiles(c)])
            /\ UNCHANGED isInitialized
       [] calls[c].kind = "init" ->
            /\ Finish(c, Returned(calls[c]))
            /\ isInitialized' = TRUE
       [] OTHER ->
            /\ calls' = [calls EXCEPT ![c].pc = "classify", ![c].gen = 0,
                 ![c].list = availableProfiles(allProfiles(c), calls[c].reasoning)]
            /\ UNCHANGED <<isInitialized, delivered>>
  /\ UNCHANGED <<profileCache, lastFetched, now, fetchCount, populated>>

\* getModelRecommendation after the classification: the category filter, the
\* error when no candidate is left, else the decision request is sent.
Classified(c, category) ==
  /\ calls[c].pc = "classify"
  /\ UNCHANGED <<config, classifierVars, analyticsVars, functionVars>>
  /\ LET cands == Ids(categoryProfiles(calls[c].list, category))
         call == [calls[c] EXCEPT !.category = category, !.list = <<>>,
                                  !.candidates = cands]
     IN  IF cands = <<>>
           THEN Finish(c, Thrown(call, "NoSuitableModels"))
           ELSE /\ calls' = [calls EXCEPT ![c] = [call EXCEPT !.pc = "deciding"]]
                /\ delivered' = delivered
  /\ UNCHANGED <<profileCache, lastFetched, now, isInitialized, fetchCount, populated>>

\* getLLMDecisionWithProfiles after the decision request: the selection is
\* returned to the caller of getModelRecommendation, an error of the catch
\* block is caught and thrown again by getModelRecommendation.
LLMResponse(c, ans) ==
  /\ calls[c].pc = "deciding"
  /\ UNCHANGED <<config, classifierVars, analyticsVars, functionVars>>
  /\ LET r == DecisionResult(calls[c].candidates, ans)
     IN  IF r.status = "ok"
           THEN Finish(c, [Returned(calls[c]) EXCEPT !.llm = ans.kind,
                             !.model = r.model, !.confidence = r.confidence])
           ELSE Finish(c, [Thrown(calls[c], r.cause) EXCEPT !.llm = ans.kind])
  /\ UNCHANGED <<profileCache, lastFetched, now, isInitialized, fetchCount, populated>>

\* The calls after a clearCache, which touches none of them: history only.
DuringClear ==
  [c \in Calls |->
     IF calls[c].pc = "fetching" THEN [calls[c] EXCEPT !.cleared = TRUE]
     ELSE calls[c]]

\* A clearCache that empties the mapping and keeps the timestamp.
ClearCacheKeepingTimestamp ==
  /\ profileCache' = <<>>
  /\ UNCHANGED <<config, classifierVars, analyticsVars, functionVars>>
  /\ calls' = DuringClear
  /\ UNCHANGED <<lastFetched, now, isInitialized, fetchCount, delivered, populated>>

\* cache.clearCache(), also through router.clearCache().  The calls whose
\* fetch is in flight go on as they are; that the cache was cleared meanwhile
\* is noted with them (history).
ClearCache ==
  /\ profileCache' = <<>>
  /\ UNCHANGED <<config, classifierVars, analyticsVars, functionVars>>
  /\ lastFetched' = 0
  /\ calls' = DuringClear
  /\ UNCHANGED <<now, isInitialized, fetchCount, delivered, populated>>

\* A week passes.
Tick ==
  /\ now < StartTime + MaxElapsed
  /\ UNCHANGED <<config, classifierVars, analyticsVars, functionVars>>
  /\ now' = now + 1
  /\ UNCHANGED <<profileCache, lastFetched, isInitialized, fetchCount, calls,
                 delivered, populated>>

\* ------------------------------------------------- the prompt classifiers
\*
\* SemanticClassifier (src/src/lib/semantic-classifier.ts) with the embedder
\* and the reference embeddings it initializes, and PromptClassifier
\* (src/unnamed/part_006), which combines it with the keyword classifier.
\* Confidences are thousandths (0.6 is 600).

\* HYBRID_SCORING and the constants of calculateHybridScore.
SEMANTIC_WEIGHT == 600
KEYWORD_WEIGHT == 400
MIN_COMBINED_CONFIDENCE == 300
FALLBACK_CONFIDENCE == 600
AgreementBonus == 100
MaxHybridConfidence == 950

\* SEMANTIC_CONFIG.FALLBACK_CONFIDENCE: the confidence of a low similarity.
SemanticFallbackConfidence == 400

\* The callers of the classifiers.
Callers == {"k1", "k2"}

\* No category.
NoCategory == [type |-> "none", confidence |-> 0]

\* What semanticClassifier.classifyPrompt can resolve to: general with the
\* fallback confidence for a low similarity, else the best category with a
\* confidence between 0.584 and 0.9.
SemanticResults ==
  {[type |-> "general", confidence |-> SemanticFallbackConfidence]}
    \cup [type : {"coding", "general"}, confidence : {585, 900}]

\* What performKeywordClassification returns for a string: general with
\* the fallback confidence without a match, else the winning category with a
\* confidence between 0.3 and 0.95.
KeywordResults ==
  {[type |-> "general", confidence |-> FALLBACK_CONFIDENCE]}
    \cup [type : {"coding", "creative"}, confidence : {300, 600, 950}]

\* The prompts given to PromptClassifier.classifyPrompt: a string, named by
\* what the keyword classifier finds in it; null or undefined; a value that
\* is not a string, such as a number.
Prompts ==
  [kind : {"string"}, keyword : KeywordResults]
    \cup {[kind |-> "nullish", keyword |-> NoCategory],
          [kind |-> "number", keyword |-> NoCategory]}

\* A caller with no call in flight.
IdleClassifierCall ==
  [kind |-> "none", pc |-> "idle", promise |-> 0, keyword |-> NoCategory,
   keywordThrew |-> FALSE]

\* No classifier call has ended yet.
NothingClassified ==
  [kind |-> "none", status |-> "none", type |-> "none", confidence |-> 0,
   semantic |-> "none", semanticResult |-> NoCategory,
   keyword |-> "none", keywordResult |-> NoCategory]

\* A calculateHybridScore without the cap on the agreement.
calculateHybridScoreUncapped(semantic, keyword) ==
  [type |-> semantic.type,
   confidence |-> (semantic.confidence * SEMANTIC_WEIGHT
                     + keyword.confidence * KEYWORD_WEIGHT) \div 1000
                  + AgreementBonus]

\* A calculateHybridScore whose keyword result wins a tie of the weighted
\* scores.
calculateHybridScoreKeywordOnTie(semantic, keyword) ==
  IF semantic.type = keyword.type
    THEN LET sum == (semantic.confidence * SEMANTIC_WEIGHT
                       + keyword.confidence * KEYWORD_WEIGHT) \div 1000
                    + AgreementBonus
         IN [type |-> semantic.type,
             confidence |-> IF sum < MaxHybridConfidence
                              THEN sum ELSE MaxHybridConfidence]
    ELSE LET semanticScore == (semantic.confidence * SEMANTIC_WEIGHT) \div 1000
             keywordScore == (keyword.confidence * KEYWORD_WEIGHT) \div 1000
         IN IF semanticScore > keywordScore
              THEN [type |-> semantic.type,
                    confidence |-> IF semanticScore > MIN_COMBINED_CONFIDENCE
                                     THEN semanticScore
                                     ELSE MIN_COMBINED_CONFIDENCE]
              ELSE [type |-> keyword.type,
                    confidence |-> IF keywordScore > MIN_COMBINED_CONFIDENCE
                                     THEN keywordScore
                                     ELSE MIN_COMBINED_CONFIDENCE]

\* calculateHybridScore: both classifiers succeeded.
calculateHybridScore(semantic, keyword) ==
  IF semantic.type = keyword.type
    THEN LET sum == (semantic.confidence * SEMANTIC_WEIGHT
                       + keyword.confidence * KEYWORD_WEIGHT) \div 1000
                    + AgreementBonus
         IN [type |-> semantic.type,
             confidence |-> IF sum < MaxHybridConfidence
                              THEN sum ELSE MaxHybridConfidence]
    ELSE LET semanticScore == (semantic.confidence * SEMANTIC_WEIGHT) \div 1000
             keywordScore == (keyword.confidence * KEYWORD_WEIGHT) \div 1000
         IN IF semanticScore >= keywordScore
              THEN [type |-> semantic.type,
                    confidence |-> IF semanticScore > MIN_COMBINED_CONFIDENCE
                                     THEN semanticScore
                                     ELSE MIN_COMBINED_CONFIDENCE]
              ELSE [type |-> keyword.type,
                    confidence |-> IF keywordScore > MIN_COMBINED_CONFIDENCE
                                     THEN keywordScore
                                     ELSE MIN_COMBINED_CONFIDENCE]

\* combineClassificationResults: NoCategory stands for a rejected result.
combineClassificationResults(semantic, keyword) ==
  IF semantic = NoCategory /\ keyword = NoCategory
    THEN [type |-> "general", confidence |-> FALLBACK_CONFIDENCE]
    ELSE IF semantic = NoCategory THEN keyword
    ELSE IF keyword = NoCategory THEN semantic
    ELSE calculateHybridScore(semantic, keyword)

\* What classifyPrompt returns once both results are in.
Combined(semantic, keyword) ==
  LET r == combineClassificationResults(semantic, keyword)
  IN [kind |-> "classify", status |-> "ok", type |-> r.type,
      confidence |-> r.confidence,
      semantic |-> IF semantic = NoCategory THEN "rejected" ELSE "fulfilled",
      semanticResult |-> semantic,
      keyword |-> "fulfilled", keywordResult |-> keyword]

\* classifyPrompt rejects: the keyword classifier threw in the try and again
\* in the catch.
Rejected(semantic, keyword) ==
  [NothingClassified EXCEPT !.kind = "classify", !.status = "error",
                            !.semantic = semantic, !.keyword = keyword]

\* What semanticClassifier.initialize() gives its caller.
InitializeResult(outcome) ==
  [NothingClassified EXCEPT !.kind = "init",
                            !.status = IF outcome = "ok" THEN "ok" ELSE "error"]

\* The semantic classification of k's classifyPrompt settles, so
\* Promise.allSettled resolves and classifyPrompt returns the combined
\* category, unless the call was rejected when it started.
SemanticSettles(k, semantic) ==
  /\ classifierCalls' = [classifierCalls EXCEPT ![k] = IdleClassifierCall]
  /\ classified' =
       IF classifierCalls[k].keywordThrew
         THEN classified
         ELSE Combined(semantic, classifierCalls[k].keyword)

\* k's await of initialize() ends with the outcome: initialize() returns to
\* its caller; classifyPrompt goes on to the embedding, or fails, since the
\* await is outside its try.
InitializeReturns(k, outcome) ==
  IF classifierCalls[k].kind = "init"
    THEN /\ classifierCalls' = [classifierCalls EXCEPT ![k] = IdleClassifierCall]
         /\ classified' = InitializeResult(outcome)
    ELSE IF outcome = "ok"
      THEN /\ classifierCalls' = [classifierCalls EXCEPT ![k].pc = "embedding"]
           /\ classified' = classified
      ELSE SemanticSettles(k, NoCategory)

\* An initialize() that starts performInitialization whatever is in flight.
EnterInitializeUnguarded(k, call) ==
  /\ performed < MaxInits
  /\ performed' = performed + 1
  /\ initializationPromise' = performed + 1
  /\ promises' = [promises EXCEPT ![performed + 1] = "pending"]
  /\ classifierCalls' =
       [classifierCalls EXCEPT
          ![k] = [call EXCEPT !.pc = IF embedderModel THEN "centroids" ELSE "loading",
                              !.promise = performed + 1]]

\* semanticClassifier.initialize() on a classifier that is not initialized,
\* up to its await: join the initialization in flight, or start one.
EnterInitialize(k, call) ==
  IF initializationPromise # 0
    THEN /\ classifierCalls' =
              [classifierCalls EXCEPT
                 ![k] = [call EXCEPT !.pc = "joined",
                                     !.promise = initializationPromise]]
         /\ UNCHANGED <<initializationPromise, promises, performed>>
    ELSE /\ performed < MaxInits
         /\ performed' = performed + 1
         /\ initializationPromise' = performed + 1
         /\ promises' = [promises EXCEPT ![performed + 1] = "pending"]
         /\ classifierCalls' =
              [classifierCalls EXCEPT
                 ![k] = [call EXCEPT
                           !.pc = IF embedderModel THEN "centroids" ELSE "loading",
                           !.promise = performed + 1]]

\* A caller calls semanticClassifier.initialize().
InitializeCall(k) ==
  /\ classifierCalls[k].pc = "idle"
  /\ UNCHANGED <<routerVars, analyticsVars, functionVars>>
  /\ IF initialized
       THEN /\ classified' = InitializeResult("ok")
            /\ UNCHANGED <<initializationPromise, promises, performed,
                           classifierCalls>>
       ELSE /\ EnterInitialize(k, [IdleClassifierCall EXCEPT !.kind = "init"])
            /\ classified' = classified
  /\ UNCHANGED <<initialized, embedderModel, referenceInitialized,
                 classificationCache>>

\* A caller calls PromptClassifier.classifyPrompt(prompt): the code up to the
\* await of Promise.allSettled.  Both classifiers are called while the array
\* is built: the semantic one runs up to its first await, the keyword one to
\* its end.
ClassifyStart(k, prompt) ==
  /\ classifierCalls[k].pc = "idle"
  /\ UNCHANGED <<routerVars, analyticsVars, functionVars>>
  /\ UNCHANGED <<initialized, embedderModel, referenceInitialized,
                 classificationCache>>
  /\ IF prompt.kind = "nullish"
       THEN /\ classified' = Rejected("notStarted", "notStarted")
            /\ UNCHANGED <<initializationPromise, promises, performed,
                           classifierCalls>>
     ELSE IF prompt.kind = "string" /\ classificationCache # NoCategory
       THEN /\ classified' = Combined(classificationCache, prompt.keyword)
            /\ UNCHANGED <<initializationPromise, promises, performed,
                           classifierCalls>>
     ELSE LET call == [IdleClassifierCall EXCEPT
                         !.kind = "classify",
                         !.keyword = prompt.keyword,
                         !.keywordThrew = (prompt.kind = "number")]
          IN /\ classified' = IF prompt.kind = "number"
                                THEN Rejected("pending", "threw")
                                ELSE classified
             /\ IF initialized
                  THEN /\ classifierCalls' =
                            [classifierCalls EXCEPT
                               ![k] = [call EXCEPT !.pc = "embedding"]]
                       /\ UNCHANGED <<initializationPromise, promises, performed>>
                  ELSE EnterInitialize(k, call)

\* performInitialization of k's initialize() settles, and k, the first to
\* await it, continues: initialized is set on success and the promise field
\* is reset in the finally.
SettleInitialization(k, outcome) ==
  /\ promises' = [promises EXCEPT ![classifierCalls[k].promise] = outcome]
  /\ initialized' = (initialized \/ outcome = "ok")
  /\ initializationPromise' = 0
  /\ InitializeReturns(k, outcome)
  /\ UNCHANGED <<performed, classificationCache>>

\* semanticEmbedder.initialize(): loadModel ends.
LoadModel(k, ok) ==
  /\ classifierCalls[k].pc = "loading"
  /\ UNCHANGED <<routerVars, analyticsVars, functionVars>>
  /\ IF ok
       THEN /\ embedderModel' = TRUE
            /\ classifierCalls' = [classifierCalls EXCEPT ![k].pc = "centroids"]
            /\ UNCHANGED <<initialized, initializationPromise, promises,
                           performed, referenceInitialized, classificationCache,
                           classified>>
       ELSE /\ SettleInitialization(k, "failed")
            /\ UNCHANGED <<embedderModel, referenceInitialized>>

\* referenceEmbeddingManager.initialize(): createReferenceEmbeddings ends;
\* with it Promise.all settles.
CreateReferenceEmbeddings(k, ok) ==
  /\ classifierCalls[k].pc = "centroids"
  /\ UNCHANGED <<routerVars, analyticsVars, functionVars>>
  /\ ok \/ ~referenceInitialized
  /\ referenceInitialized' = (referenceInitialized \/ ok)
  /\ SettleInitialization(k, IF ok THEN "ok" ELSE "failed")
  /\ UNCHANGED embedderModel

\* The initialization k joined has settled: k continues with its outcome.
JoinerContinues(k) ==
  /\ classifierCalls[k].pc = "joined"
  /\ UNCHANGED <<routerVars, analyticsVars, functionVars>>
  /\ promises[classifierCalls[k].promise] \in {"ok", "failed"}
  /\ InitializeReturns(k, promises[classifierCalls[k].promise])
  /\ UNCHANGED <<initialized, initializationPromise, promises, performed,
                 embedderModel, referenceInitialized, classificationCache>>

\* semanticClassifier.classifyPrompt after initialize(): the embedding and
\* the similarities give a category, which is cached, or fail.  A prompt that
\* is not a string fails in preprocessText.
Embedded(k, semantic) ==
  /\ classifierCalls[k].pc = "embedding"
  /\ UNCHANGED <<routerVars, analyticsVars, functionVars>>
  /\ classifierCalls[k].keywordThrew => semantic = NoCategory
  /\ classificationCache' =
       IF semantic = NoCategory THEN classificationCache ELSE semantic
  /\ SemanticSettles(k, semantic)
  /\ UNCHANGED <<initialized, initializationPromise, promises, performed,
                 embedderModel, referenceInitialized>>

\* The cached classification is older than CLASSIFICATION_TTL.
ExpireClassification ==
  /\ classificationCache # NoCategory
  /\ UNCHANGED <<routerVars, analyticsVars, functionVars>>
  /\ classificationCache' = NoCategory
  /\ UNCHANGED <<initialized, initializationPromise, promises, performed,
                 embedderModel, referenceInitialized, classifierCalls,
                 classified>>

ClassifierInit ==
  /\ initialized = FALSE
  /\ initializationPromise = 0
  /\ promises = [p \in 1..MaxInits |-> "none"]
  /\ performed = 0
  /\ embedderModel = FALSE
  /\ referenceInitialized = FALSE
  /\ classificationCache = NoCategory
  /\ classifierCalls = [k \in Callers |-> IdleClassifierCall]
  /\ classified = NothingClassified

\* A step of caller k.
ClassifierCallStep(k) ==
  \/ InitializeCall(k)
  \/ \E prompt \in Prompts : ClassifyStart(k, prompt)
  \/ \E ok \in BOOLEAN : LoadModel(k, ok)
  \/ \E ok \in BOOLEAN : CreateReferenceEmbeddings(k, ok)
  \/ JoinerContinues(k)
  \/ \E semantic \in SemanticResults \cup {NoCategory} : Embedded(k, semantic)

ClassifierStep ==
  \/ \E k \in Callers : ClassifierCallStep(k)
  \/ ExpireClassification

\* ---------------------------------------------------- the keyword classifier
\*
\* PromptClassifier.performKeywordClassification (src/unnamed/part_006).  The
\* classifier asks of a prompt only which keywords occur in its lower-cased
\* text, so a prompt is the set of the keywords that occur in it.

\* CLASSIFICATION_KEYWORDS.
CLASSIFICATION_KEYWORDS ==
  [coding |->
     [highSpecificity |-> {"algorithm", "compile", "syntax", "import", "export",
                           "debug", "variable", "method"},
      mediumSpecificity |-> {"code", "function", "program", "api", "script",
                             "class"},
      lowSpecificity |-> {"write", "return"}],
   creative |->
     [highSpecificity |-> {"poem", "novel", "character", "plot", "narrative",
                           "fiction", "imagine"},
      mediumSpecificity |-> {"creative", "story", "design", "art"},
      lowSpecificity |-> {"write"}],
   analytical |->
     [highSpecificity |-> {"analyze", "statistics", "trends", "insights",
                           "evaluate", "assess"},
      mediumSpecificity |-> {"data", "research", "study", "examine",
                             "investigate", "compare"},
      lowSpecificity |-> {}],
   reasoning |->
     [highSpecificity |-> {"deduce", "infer", "proof", "theorem", "hypothesis",
                           "conclude"},
      mediumSpecificity |-> {"reason", "logic", "puzzle"},
      lowSpecificity |-> {"solve", "problem", "think"}],
   conversational |->
     [highSpecificity |-> {"hi", "hello", "hey", "good morning", "good evening",
                           "thanks", "thank you", "how are you"},
      mediumSpecificity |-> {"chat", "conversation"},
      lowSpecificity |-> {"talk"}]]

\* SPECIFICITY_WEIGHTS.
SPECIFICITY_WEIGHTS == [high |-> 3, medium |-> 2, low |-> 1]

\* The keys of the scores object, in the order Object.entries lists them.
ScoreKeys == <<"coding", "creative", "analytical", "reasoning", "conversational">>

\* The keywords the prompts of this model are made of.
PromptWords ==
  {"write", "code", "debug", "story", "poem", "data", "analyze", "solve",
   "think", "hi"}

\* The lower-cased prompts: a text that holds "think" holds "hi".
KeywordPrompts ==
  {words \in SUBSET PromptWords : "think" \in words => "hi" \in words}

\* calculateCategoryScore: the keywords of each level that the prompt
\* includes are counted and weighted.
calculateCategoryScore(prompt, keywords) ==
  Cardinality(keywords.highSpecificity \cap prompt) * SPECIFICITY_WEIGHTS.high
    + Cardinality(keywords.mediumSpecificity \cap prompt) * SPECIFICITY_WEIGHTS.medium
    + Cardinality(keywords.lowSpecificity \cap prompt) * SPECIFICITY_WEIGHTS.low

\* The mutant: the last entry with the highest score wins.
lastWinningEntry(scores, maxScore) ==
  CHOOSE i \in 1..Len(scores) :
    scores[i] = maxScore /\ \A j \in (i + 1)..Len(scores) : scores[j] # maxScore

\* Object.entries(scores).find(([_, score]) => score === maxScore): the first
\* entry with the highest score.
winningEntry(scores, maxScore) ==
  CHOOSE i \in 1..Len(scores) :
    scores[i] = maxScore /\ \A j \in 1..(i - 1) : scores[j] # maxScore

\* calculateKeywordConfidence, in thousandths and rounded down:
\* 0.6 * min(maxScore / 10, 1) + 0.4 * maxScore / totalScore, kept within
\* 0.3 and 0.95.
calculateKeywordConfidence(maxScore, totalScore) ==
  IF totalScore = 0 THEN FALLBACK_CONFIDENCE
  ELSE LET scoreStrength == IF maxScore < 10 THEN maxScore * 100 ELSE 1000
           confidence == (scoreStrength * 6) \div 10
                           + (400 * maxScore) \div totalScore
           capped == IF confidence < 950 THEN confidence ELSE 950
       IN  IF capped > 300 THEN capped ELSE 300

\* performKeywordClassification on a string prompt.
performKeywordClassification(prompt) ==
  LET scores == [i \in 1..Len(ScoreKeys) |->
                   calculateCategoryScore(prompt, CLASSIFICATION_KEYWORDS[ScoreKeys[i]])]
      maxScore == CHOOSE m \in {scores[i] : i \in 1..Len(scores)} :
                    \A i \in 1..Len(scores) : scores[i] <= m
      RECURSIVE Sum(_)
      Sum(i) == IF i = 0 THEN 0 ELSE scores[i] + Sum(i - 1)
  IN  IF maxScore = 0
        THEN [type |-> "general", confidence |-> FALLBACK_CONFIDENCE]
        ELSE [type |-> ScoreKeys[winningEntry(scores, maxScore)],
              confidence |-> calculateKeywordConfidence(maxScore, Sum(Len(scores)))]

\* No keyword classification has been made.
NoKeywordCall == [pc |-> "idle", prompt |-> {}, result |-> NoCategory]

\* A call of performKeywordClassification(prompt).
KeywordClassification(prompt) ==
  /\ keywordCall' = [pc |-> "done", prompt |-> prompt,
                     result |-> performKeywordClassification(prompt)]
  /\ UNCHANGED <<routerVars, classifierVars, analyticsVars, textCacheVars>>

KeywordNext == \E prompt \in KeywordPrompts : KeywordClassification(prompt)

\* ------------------------------------------- the embedding cache's keys
\*
\* InMemoryEmbeddingCache (src/src/cache.ts, lines 148-324).  A text is the
\* sequence of its char codes; a Map is a function from its keys.

\* The texts given to the cache: "Aa", "BB" and "Ab".
CacheTexts == {<<65, 97>>, <<66, 66>>, <<65, 98>>}

\* The values stored: embeddings and classification types.
Embeddings == {"e1", "e2"}
ClassificationTypes == {"coding", "general"}

\* ToInt32: the 32-bit two's complement value of an integer, reached by
\* adding or subtracting 2^32 until it lies in -2^31 .. 2^31 - 1.
RECURSIVE ToInt32(_)
ToInt32(x) ==
  IF x > 2147483647 THEN ToInt32(x - 2147483647 - 2147483647 - 2)
  ELSE IF x < -2147483647 - 1 THEN ToInt32(x + 2147483647 + 2147483647 + 2)
  ELSE x

\* The loop of createKey over the first n char codes:
\* hash = (hash << 5) - hash + char; hash = hash & hash.
RECURSIVE rollingHash(_, _)
rollingHash(text, n) ==
  IF n = 0 THEN 0
  ELSE LET hash == rollingHash(text, n - 1)
       IN  ToInt32(ToInt32(hash * 32) - hash + text[n])

\* createKey: `${hash}_${text.length}`.
createKey(text) == <<rollingHash(text, Len(text)), Len(text)>>

\* Map.set(key, entry).
MapPut(map, key, entry) ==
  [k \in DOMAIN map \cup {key} |-> IF k = key THEN entry ELSE map[k]]

\* Map.delete(key).
MapDelete(map, key) == [k \in DOMAIN map \ {key} |-> map[k]]

\* The entry set stores: the value, whether more than the TTL has passed
\* since (the timestamp), and the text it was stored for (history).
NewEntry(text, value) == [value |-> value, expired |-> FALSE, text |-> text]

\* What a get returns and leaves of the map: null without an entry, null and
\* the entry deleted when it has expired, else a copy of the value.
Get(map, text) ==
  LET key == createKey(text)
  IN  IF key \notin DOMAIN map
        THEN [map |-> map, value |-> "null", storedFor |-> <<>>]
      ELSE IF map[key].expired
        THEN [map |-> MapDelete(map, key), value |-> "null", storedFor |-> <<>>]
      ELSE [map |-> map, value |-> map[key].value, storedFor |-> map[key].text]

\* No get has been made.
NoLookup == [kind |-> "none", text |-> <<>>, value |-> "null", storedFor |-> <<>>]

\* setEmbedding(text, embedding).
SetEmbedding(text, embedding) ==
  /\ embeddingEntries' =
       MapPut(embeddingEntries, createKey(text), NewEntry(text, embedding))
  /\ UNCHANGED <<classificationEntries, lookup>>
  /\ UNCHANGED <<routerVars, classifierVars, analyticsVars, keywordCall>>

\* getEmbedding(text).
GetEmbedding(text) ==
  /\ embeddingEntries' = Get(embeddingEntries, text).map
  /\ lookup' = [kind |-> "embedding", text |-> text,
                value |-> Get(embeddingEntries, text).value,
                storedFor |-> Get(embeddingEntries, text).storedFor]
  /\ UNCHANGED classificationEntries
  /\ UNCHANGED <<routerVars, classifierVars, analyticsVars, keywordCall>>

\* setClassification(text, result).
SetClassification(text, result) ==
  /\ classificationEntries' =
       MapPut(classificationEntries, createKey(text), NewEntry(text, result))
  /\ UNCHANGED <<embeddingEntries, lookup>>
  /\ UNCHANGED <<routerVars, classifierVars, analyticsVars, keywordCall>>

\* getClassification(text).
GetClassification(text) ==
  /\ classificationEntries' = Get(classificationEntries, text).map
  /\ lookup' = [kind |-> "classification", text |-> text,
                value |-> Get(classificationEntries, text).value,
                storedFor |-> Get(classificationEntries, text).storedFor]
  /\ UNCHANGED embeddingEntries
  /\ UNCHANGED <<routerVars, classifierVars, analyticsVars, keywordCall>>

\* More than EMBEDDING_TTL passes since an embedding was stored.
EmbeddingExpires(key) ==
  /\ key \in DOMAIN embeddingEntries
  /\ ~embeddingEntries[key].expired
  /\ embeddingEntries' = [embeddingEntries EXCEPT ![key].expired = TRUE]
  /\ UNCHANGED <<classificationEntries, lookup>>
  /\ UNCHANGED <<routerVars, classifierVars, analyticsVars, keywordCall>>

\* More than CLASSIFICATION_TTL passes since a classification was stored.
ClassificationExpires(key) ==
  /\ key \in DOMAIN classificationEntries
  /\ ~classificationEntries[key].expired
  /\ classificationEntries' = [classificationEntries EXCEPT ![key].expired = TRUE]
  /\ UNCHANGED <<embeddingEntries, lookup>>
  /\ UNCHANGED <<routerVars, classifierVars, analyticsVars, keywordCall>>

TextCacheNext ==
  \/ \E text \in CacheTexts, embedding \in Embeddings : SetEmbedding(text, embedding)
  \/ \E text \in CacheTexts : GetEmbedding(text)
  \/ \E text \in CacheTexts, result \in ClassificationTypes :
       SetClassification(text, result)
  \/ \E text \in CacheTexts : GetClassification(text)
  \/ \E text \in CacheTexts : EmbeddingExpires(createKey(text))
  \/ \E text \in CacheTexts : ClassificationExpires(createKey(text))

\* ------------------------------------------------------ the analytics queue
\*
\* AnalyticsQueue (src/src/analytics/queue.ts, lines 13-177) with analytics
\* enabled.  The events are alike, so the queue is the number of events in it.

\* The fields a step of the queue reads and writes, as one record.
QueueState ==
  [queue |-> queue, isProcessing |-> isProcessing, flushTimer |-> flushTimer,
   uploads |-> uploads]

\* The fields after the step.
SetQueueState(a) ==
  /\ queue' = a.queue
  /\ isProcessing' = a.isProcessing
  /\ flushTimer' = a.flushTimer
  /\ uploads' = a.uploads

\* processBatch up to its await: nothing while a batch is being processed or
\* the queue is empty, else the first batchSize events leave the queue and
\* their upload starts.
processBatch(a) ==
  IF a.isProcessing \/ a.queue = 0
    THEN a
    ELSE [a EXCEPT !.isProcessing = TRUE,
                   !.queue = IF a.queue > BatchSize THEN a.queue - BatchSize ELSE 0,
                   !.uploads = a.uploads + 1]

\* scheduleBatchFlush: process at once when a batch is full, else arm the
\* flush timer unless it is armed.
scheduleBatchFlush(a) ==
  IF a.queue >= BatchSize
    THEN processBatch(a)
    ELSE IF a.flushTimer THEN a ELSE [a EXCEPT !.flushTimer = TRUE]

\* A finally that only resets isProcessing.
AfterUploadNoReschedule(a) ==
  [a EXCEPT !.isProcessing = FALSE, !.uploads = a.uploads - 1]

\* The finally of processBatch.
AfterUpload(a) ==
  LET b == [a EXCEPT !.isProcessing = FALSE, !.uploads = a.uploads - 1]
  IN IF b.queue > 0 THEN scheduleBatchFlush(b) ELSE b

\* The uploads that fail: fetch rejects, or the response is not 2xx.
UploadFailures == {"NetworkError", "Non2xx"}

\* The prompts of the tracked requests.  The first two are different texts of
\* the same length with the same content hash (the hash keeps 64 bits of the
\* digest, so such texts exist).
TrackedPrompts == {"fix the bug", "tell a joke", "hello"}

\* prompt.length.
PromptLength(prompt) == IF prompt = "hello" THEN 5 ELSE 11

\* AnalyticsUtils.generateContentHash: the first 16 hex digits of the SHA-256
\* digest of the content.
generateContentHash(content) ==
  IF content = "hello" THEN "digest-1" ELSE "digest-2"

\* What trackPromptRequest is called with: the prompt, the classification's
\* type and the selected model (the other fields are copied as they are).
PromptRequests ==
  [prompt : TrackedPrompts, classification : {"coding", "general"},
   modelSelection : {"openai/gpt-4o"}]

\* No prompt request has been tracked.
NothingTracked ==
  [request |-> [prompt |-> "none", classification |-> "none",
                modelSelection |-> "none"],
   data |-> [promptHash |-> "none", promptLength |-> 0, promptType |-> "none",
             modelSelected |-> "none"]]

\* enqueue(event) for an event of another type.
Enqueue ==
  /\ enqueued < MaxEvents
  /\ UNCHANGED <<routerVars, classifierVars, functionVars>>
  /\ enqueued' = enqueued + 1
  /\ acceptedInFlight' = IF isProcessing THEN enqueued + 1 ELSE acceptedInFlight
  /\ SetQueueState(scheduleBatchFlush([QueueState EXCEPT !.queue = queue + 1]))
  /\ UNCHANGED <<shutdownPc, lastBatch, tracked>>

\* analyticsData of trackPromptRequest: the field promptHash is data.prompt
\* itself (the call of generateContentHash is commented out).
promptRequestData(data) ==
  [promptHash |-> data.prompt,
   promptLength |-> PromptLength(data.prompt),
   promptType |-> data.classification,
   modelSelected |-> data.modelSelection]

\* collector.trackPromptRequest(data) with prompt metrics collected: the
\* event's data is built and the event is given to enqueue.
TrackPromptRequest(data) ==
  /\ enqueued < MaxEvents
  /\ UNCHANGED <<routerVars, classifierVars, functionVars>>
  /\ enqueued' = enqueued + 1
  /\ tracked' = [request |-> data, data |-> promptRequestData(data)]
  /\ acceptedInFlight' = IF isProcessing THEN enqueued + 1 ELSE acceptedInFlight
  /\ SetQueueState(scheduleBatchFlush([QueueState EXCEPT !.queue = queue + 1]))
  /\ UNCHANGED <<shutdownPc, lastBatch>>

\* The flush timer fires: processBatch is called and the timer field reset.
TimerFires ==
  /\ flushTimer
  /\ UNCHANGED <<routerVars, classifierVars, functionVars>>
  /\ SetQueueState([processBatch(QueueState) EXCEPT !.flushTimer = FALSE])
  /\ UNCHANGED <<enqueued, shutdownPc, lastBatch, tracked, acceptedInFlight>>

\* The upload settles and processBatch rejects when it failed.
UploadSettlesUncaught(outcome) ==
  /\ uploads > 0
  /\ UNCHANGED <<routerVars, classifierVars, functionVars>>
  /\ SetQueueState(AfterUpload(QueueState))
  /\ lastBatch' = [upload |-> outcome,
                   status |-> IF outcome \in UploadFailures
                                THEN "rejected" ELSE "fulfilled"]
  /\ shutdownPc' = IF shutdownPc = "awaiting" THEN "resolved" ELSE shutdownPc
  /\ UNCHANGED <<enqueued, tracked, acceptedInFlight>>

\* The upload of the batch settles: sendAnalyticsBatch returns or throws, a
\* failure is caught and logged, the finally runs, and processBatch resolves;
\* with it a shutdown that awaits it.
UploadSettles(outcome) ==
  /\ uploads > 0
  /\ UNCHANGED <<routerVars, classifierVars, functionVars>>
  /\ SetQueueState(AfterUpload(QueueState))
  /\ lastBatch' = [upload |-> outcome, status |-> "fulfilled"]
  /\ shutdownPc' = IF shutdownPc = "awaiting" THEN "resolved" ELSE shutdownPc
  /\ UNCHANGED <<enqueued, tracked, acceptedInFlight>>

\* shutdown(): the timer is cleared; with events in the queue processBatch is
\* awaited, which returns at once while a batch is being processed.
Shutdown ==
  /\ shutdownPc \in {"idle", "resolved"}
  /\ UNCHANGED <<routerVars, classifierVars, functionVars>>
  /\ LET a == [QueueState EXCEPT !.flushTimer = FALSE]
     IN IF a.queue > 0 /\ ~a.isProcessing
          THEN /\ SetQueueState(processBatch(a))
               /\ shutdownPc' = "awaiting"
          ELSE /\ SetQueueState(a)
               /\ shutdownPc' = "resolved"
  /\ UNCHANGED <<enqueued, lastBatch, tracked, acceptedInFlight>>

AnalyticsInit ==
  /\ queue = 0
  /\ isProcessing = FALSE
  /\ flushTimer = FALSE
  /\ uploads = 0
  /\ enqueued = 0
  /\ shutdownPc = "idle"
  /\ lastBatch = [upload |-> "none", status |-> "none"]
  /\ tracked = NothingTracked
  /\ acceptedInFlight = 0

AnalyticsNext ==
  \/ Enqueue
  \/ \E data \in PromptRequests : TrackPromptRequest(data)
  \/ TimerFires
  \/ \E outcome \in {"ok"} \cup UploadFailures : UploadSettles(outcome)
  \/ Shutdown

\* ---------------------------------------------------------- the whole state

\* new AutoPromptRouter(routerConfig) next to the module's cache, classifier
\* and queue: the constructor keeps the config as it is.
Constructed(routerConfig) ==
  /\ ClassifierInit
  /\ AnalyticsInit
  /\ profileCache = <<>>
  /\ lastFetched = 0
  /\ now = StartTime
  /\ isInitialized = FALSE
  /\ fetchCount = 0
  /\ calls = [c \in Calls |-> IdleCall]
  /\ delivered = Nothing
  /\ populated = FALSE
  /\ config = routerConfig
  /\ keywordCall = NoKeywordCall
  /\ embeddingEntries = <<>>
  /\ classificationEntries = <<>>
  /\ lookup = NoLookup

\* A router whose config names no provider.
Init == Constructed(NoProviderLists)

\* A router whose config names providers.
ProviderInit == \E routerConfig \in ProviderConfigs : Constructed(routerConfig)

\* A step of a call that uses the catalog only: getAvailableModels or
\* initialize.
CacheCallStep(c) ==
  \/ GetAvailableModels(c)
  \/ InitializeStart(c)
  \/ \E data \in Catalogs : FetchOk(c, data)
  \/ \E err \in FetchErrors : FetchFail(c, err)
  \/ FetchNoData(c)
  \/ Resume(c)

\* A step of any call: also those of getModelRecommendation.
CallStep(c) ==
  \/ CacheCallStep(c)
  \/ \E properties \in PromptPropertiesSet : RecommendStart(c, properties)
  \/ \E category \in PromptTypes : Classified(c, category)
  \/ \E ans \in LLMAnswers : LLMResponse(c, ans)

\* The application makes any call in slot c1; while one is in flight, a
\* second caller may use the catalog (slot c2), clear the cache, or time passes.
Next ==
  \/ CallStep("c1")
  \/ CacheCallStep("c2")
  \/ ClearCache
  \/ Tick

Spec == Init /\ [][Next]_vars

\* What the runtime and the model source feed guarantee while the decision
\* collaborator may stay silent: a call whose await has settled goes on, the
\* catalog fetch and the classification settle, and time passes.  Nothing
\* makes the decision request settle.
CollaboratorMayStaySilent ==
  /\ \A c \in Calls :
       /\ WF_vars(Resume(c))
       /\ WF_vars(\/ \E data \in Catalogs : FetchOk(c, data)
                  \/ \E err \in FetchErrors : FetchFail(c, err)
                  \/ FetchNoData(c))
       /\ WF_vars(\E category \in PromptTypes : Classified(c, category))
  /\ WF_vars(Tick)

\* The router with that scheduling.
SilentCollaboratorSpec == Spec /\ CollaboratorMayStaySilent

\* The router of an application that configured provider lists.
ProviderSpec == ProviderInit /\ [][Next]_vars

\* The classifiers alone: any callers of semanticClassifier.initialize() and
\* PromptClassifier.classifyPrompt().
ClassifierSpec == Init /\ [][ClassifierStep]_vars

\* The keyword classifier alone, on any prompt.
KeywordSpec == Init /\ [][KeywordNext]_vars

\* The embedding cache alone: any sets, gets and expiries.
TextCacheSpec == Init /\ [][TextCacheNext]_vars

\* The analytics queue alone: events, the timer, the uploads and shutdown.
AnalyticsSpec == Init /\ [][AnalyticsNext]_vars

\* What the runtime and the backend guarantee the queue: an armed flush timer
\* fires and an upload in flight settles.
TimersFireAndUploadsSettle ==
  /\ WF_vars(TimerFires)
  /\ WF_vars(\E outcome \in {"ok"} \cup UploadFailures : UploadSettles(outcome))

\* The analytics queue with that scheduling.
AnalyticsLiveSpec == AnalyticsSpec /\ TimersFireAndUploadsSettle


\* ------------------------------------------------------------------ claims

\* The elements of a sequence.
Range(seq) == {seq[i] : i \in 1..Len(seq)}

\* The call in slot c gets the decision collaborator's answer in this step.
Decided(c) == calls[c].pc = "deciding" /\ calls'[c].pc = "idle"

\* C1: a selection that getModelRecommendation returns names one of the
\* candidates handed to the decision collaborator, whatever the collaborator
\* answered.
C1_ModelAmongCandidates ==
  [][\A c \in Calls :
       Decided(c) /\ delivered'.status = "ok"
         => delivered'.model \in Range(calls[c].candidates)]_vars

\* The highest category score among the candidates.
TopScore(candidates, category) ==
  Capability(profileInfo(candidates, category)[1], category)

\* C2: when the decision collaborator fails, the selection returned is the
\* candidate with the highest capability score for the category, with
\* confidence exactly 0.5.
C2_FallbackIsTopScoring ==
  [][\A c \in Calls :
       Decided(c) /\ delivered'.llm \in LLMFailures
         => /\ delivered'.status = "ok"
            /\ delivered'.confidence = FallbackConfidence
            /\ delivered'.model \in Range(calls[c].candidates)
            /\ Capability(delivered'.model, calls[c].category)
                 = TopScore(calls[c].candidates, calls[c].category)]_vars

\* C3: a failure of the decision collaborator (transport, status, content)
\* never reaches the caller: with a candidate left, getModelRecommendation
\* returns a selection.
C3_CollaboratorFailureAbsorbed ==
  [][\A c \in Calls :
       Decided(c) /\ delivered'.llm \in LLMFailures /\ calls[c].candidates # <<>>
         => /\ delivered'.status = "ok"
            /\ delivered'.error = "none"
            /\ delivered'.model \in Range(calls[c].candidates)]_vars

\* C3, witness: a selection was returned although the collaborator's answer
\* could not be parsed.
C3_Witness ==
  /\ delivered.kind = "rec"
  /\ delivered.llm = "Unparsable"
  /\ delivered.status = "ok"


\* C4: getModelRecommendation on a router whose initialize has not returned
\* (never called, in flight, or failed) throws the 'not initialized' error in
\* its first step, with no fetch, classification or decision request; the
\* router is initialized by a successful initialize only, stays so, and then
\* takes the call.
C4_NotInitializedRejected ==
  [][/\ \A c \in Calls, r \in PromptPropertiesSet :
          RecommendStart(c, r) /\ ~isInitialized
            => /\ delivered'.kind = "rec"
               /\ delivered'.status = "error"
               /\ delivered'.error = "NotInitialized"
               /\ calls'[c] = IdleCall
               /\ fetchCount' = fetchCount
     /\ \A c \in Calls, r \in PromptPropertiesSet :
          RecommendStart(c, r) /\ isInitialized
            => /\ calls'[c].kind = "rec"
               /\ calls'[c].pc \in {"fetching", "resolved"}
               /\ delivered' = delivered
     /\ isInitialized' # isInitialized
          => /\ isInitialized'
             /\ \E c \in Calls :
                  /\ calls[c].kind = "init"
                  /\ calls[c].pc \in {"rebuilt", "resolved"}
                  /\ calls'[c].pc = "idle"
                  /\ delivered'.kind = "init"
                  /\ delivered'.status = "ok"]_vars

\* C4, witness: a recommendation was refused while initialize was in flight.
C4_Witness ==
  /\ delivered.kind = "rec"
  /\ delivered.error = "NotInitialized"
  /\ ~isInitialized
  /\ \E c \in Calls : calls[c].kind = "init" /\ calls[c].pc = "fetching"

\* C5: when the filters leave no candidate, no selection is returned, no
\* decision request is made, and the error the caller gets is the 'no suitable
\* models' error.
C5_NoSuitableModelsReachesCaller ==
  delivered.cause = "NoSuitableModels"
    => /\ delivered.status = "error"
       /\ delivered.model = "none"
       /\ delivered.llm = "none"
       /\ delivered.error = "NoSuitableModels"

\* C6, as claimed: once the catalog has been populated, no recommendation
\* fails because the catalog fetch failed.
C6_NoFetchErrorOncePopulated ==
  [][populated
       => \A c \in Calls, err \in FetchErrors :
            ~(calls[c].kind = "rec" /\ FetchFail(c, err))]_vars

\* C6, as amended: a recommendation fails because the catalog fetch failed
\* only if the mapping was empty or older than the TTL when the call asked
\* for the profiles; the caller then gets the recommendation error.
C6_FetchErrorOnlyWhenEmptyOrExpired ==
  delivered.kind = "rec" /\ delivered.cause \in FetchErrors
    => /\ delivered.stale
       /\ delivered.status = "error"
       /\ delivered.error = "RecommendationFailed"

\* C6, witness: a recommendation failed on the catalog fetch after the
\* catalog had been populated.
C6_Witness ==
  /\ delivered.kind = "rec"
  /\ delivered.cause \in FetchErrors
  /\ populated

\* All the entries of a list come from one fetch.
OneGeneration(list) ==
  \A i, j \in 1..Len(list) : list[i].gen = list[j].gen

\* C7: the mapping, and every list getModelProfiles has handed out, is empty
\* or holds the profiles of one fetch only.
C7_OneFetchGeneration ==
  /\ OneGeneration(profileCache)
  /\ OneGeneration(delivered.list)
  /\ \A c \in Calls : OneGeneration(calls[c].list)

\* C7, witness: a second fetch has replaced the profiles of the first before
\* the caller of the first got its list.
C7_Witness ==
  /\ Len(profileCache) > 1
  /\ profileCache[1].gen = 2
  /\ \E c \in Calls : calls[c].pc = "rebuilt" /\ calls[c].gen = 1

\* C8: at most one fetch of the catalog is in flight.
C8_AtMostOneFetchInFlight ==
  Cardinality({c \in Calls : calls[c].pc = "fetching"}) <= 1

\* The call in slot c enters getModelProfiles in this step.
Entered(c) ==
  calls[c].pc = "idle" /\ calls'[c].pc \in {"fetching", "resolved"}

\* C9: getModelProfiles starts a fetch if and only if the mapping is empty or
\* more than the TTL has passed since the last rebuild; otherwise it returns
\* the mapping's profiles as they are, without a fetch.
C9_FetchIffEmptyOrExpired ==
  [][\A c \in Calls :
       Entered(c)
         => /\ calls'[c].pc = "fetching" <=> EmptyOrExpired
            /\ calls'[c].pc = "fetching" => fetchCount' = fetchCount + 1
            /\ calls'[c].pc = "resolved"
                 => /\ fetchCount' = fetchCount
                    /\ calls'[c].list = profileCache
                    /\ profileCache # <<>>]_vars

\* C9, witness: a call made exactly one TTL after the last rebuild got the
\* profiles without a fetch.
C9_Witness ==
  /\ now - lastFetched = CACHE_TTL
  /\ \E c \in Calls : calls[c].pc = "resolved" /\ calls[c].list = profileCache

\* The call in slot c ends in this step because its catalog fetch failed.
FetchFailed(c) ==
  /\ calls[c].pc = "fetching"
  /\ calls'[c].pc = "idle"
  /\ delivered'.cause \in FetchErrors

\* C10: a call whose catalog fetch fails ends with that error after its one
\* fetch, without a list, and neither its first step nor its last changes the
\* mapping or lastFetched.
C10_FailedFetchLeavesCache ==
  [][\A c \in Calls :
       /\ FetchFailed(c)
            => /\ profileCache' = profileCache
               /\ lastFetched' = lastFetched
               /\ fetchCount' = fetchCount
               /\ delivered'.status = "error"
               /\ delivered'.list = <<>>
               /\ calls[c].kind = "profiles" => delivered'.error = delivered'.cause
       /\ Entered(c) /\ calls'[c].pc = "fetching"
            => /\ profileCache' = profileCache
               /\ lastFetched' = lastFetched
               /\ fetchCount' = fetchCount + 1]_vars

\* C10, witness: getAvailableModels failed on the fetch of an expired cache,
\* whose profiles and timestamp are still there.
C10_Witness ==
  /\ delivered.kind = "profiles"
  /\ delivered.cause \in FetchErrors
  /\ profileCache # <<>>
  /\ now - lastFetched > CACHE_TTL


Initializing ==
  {k \in Callers : classifierCalls[k].pc \in {"loading", "centroids"}}

\* C12: at most one performInitialization (model load and reference
\* embeddings) runs at a time; a caller that finds one running joins it; every
\* initialize() that waited ends with the outcome of the initialization it
\* waited for; once the classifier is initialized it stays so and no call
\* starts another initialization.
C12_SingleFlightInitialization ==
  [][/\ Cardinality(Initializing) <= 1
     /\ \A k \in Callers :
          classifierCalls[k].pc = "joined" /\ promises[classifierCalls[k].promise] = "pending"
            => /\ initializationPromise = classifierCalls[k].promise
               /\ \E o \in Initializing :
                    classifierCalls[o].promise = classifierCalls[k].promise
     /\ \A k \in Callers :
          /\ classifierCalls[k].kind = "init"
          /\ classifierCalls[k].pc # "idle"
          /\ classifierCalls'[k].pc = "idle"
          => /\ classified'.kind = "init"
             /\ classified'.status = "ok"
                  <=> promises'[classifierCalls[k].promise] = "ok"
             /\ classified'.status = "error"
                  <=> promises'[classifierCalls[k].promise] = "failed"
     /\ initialized => initialized' /\ performed' = performed]_vars

\* C12, witness: one caller is computing the reference embeddings and the
\* other waits for the same initialization.
C12_Witness ==
  \E k, j \in Callers :
    /\ classifierCalls[k].pc = "centroids"
    /\ classifierCalls[j].pc = "joined"
    /\ classifierCalls[j].promise = classifierCalls[k].promise


\* A classifyPrompt call ended and one of its classifiers had failed by then.
OneClassifierFailed ==
  /\ classified.kind = "classify"
  /\ classified.semantic = "rejected" \/ classified.keyword = "threw"

\* C13: classifyPrompt does not fail because a classifier failed: with the
\* semantic result rejected it returns the keyword result as it is, with the
\* keyword classifier failed the semantic result, with both general at 0.6.
C13_OneFailureIsAbsorbed ==
  OneClassifierFailed
    => /\ classified.status = "ok"
       /\ classified.semantic = "rejected" /\ classified.keyword = "fulfilled"
            => /\ classified.type = classified.keywordResult.type
               /\ classified.confidence = classified.keywordResult.confidence
       /\ classified.semantic = "fulfilled" /\ classified.keyword = "threw"
            => /\ classified.type = classified.semanticResult.type
               /\ classified.confidence = classified.semanticResult.confidence
       /\ classified.semantic = "rejected" /\ classified.keyword = "threw"
            => /\ classified.type = "general"
               /\ classified.confidence = FALLBACK_CONFIDENCE

\* classifyPrompt returned the combination of two results for one category.
Agreed ==
  /\ classified.kind = "classify"
  /\ classified.semantic = "fulfilled"
  /\ classified.keyword = "fulfilled"
  /\ classified.semanticResult.type = classified.keywordResult.type

\* The larger and the smaller of two numbers.
Max(a, b) == IF a >= b THEN a ELSE b
Min(a, b) == IF a <= b THEN a ELSE b

C15_ResultAfterBothSettled ==
  classified.kind = "classify" /\ classified.keyword # "notStarted"
    => /\ classified.semantic \in {"fulfilled", "rejected"}
       /\ classified.keyword \in {"fulfilled", "threw"}

C17_TokenLimitIsHard ==
  [][\A c \in Calls :
       LET Fits(id) == createModelProfile(id).contextLength >= calls[c].tokenLimit
       IN  /\ (calls[c].pc = "classify" /\ calls'[c].pc = "deciding")
                => \A m \in Range(calls'[c].candidates) : Fits(m)
           /\ (calls[c].pc = "deciding" /\ calls'[c].pc = "idle"
                  /\ delivered'.status = "ok"
                  /\ delivered'.model \in DOMAIN ModelInfos)
                => Fits(delivered'.model)]_vars

\* C18: provider filtering is respected: with allowedProviders configured,
\* every model a recommendation returns has its provider in that list; with
\* blockedProviders only, no returned model has a blocked provider; with both,
\* allowedProviders decides.
C18_ProviderListsRespected ==
  [][\A c \in Calls :
       (calls[c].pc = "deciding" /\ calls'[c].pc = "idle"
          /\ delivered'.status = "ok" /\ delivered'.model \in DOMAIN ModelInfos)
         => LET provider == createModelProfile(delivered'.model).provider
            IN  IF config.allowedProviders # {}
                  THEN provider \in config.allowedProviders
                  ELSE provider \notin config.blockedProviders]_vars

\* C19: a failure of the analytics sink never reaches the code that emitted
\* the event: enqueue returns before any upload settles (no step that takes an
\* event sees an upload's outcome), and when an upload fails, by a network
\* error or a response that is not 2xx, processBatch still settles fulfilled.
C19_SinkFailureStaysInQueue ==
  [][/\ enqueued' # enqueued => lastBatch' = lastBatch
     /\ lastBatch'.upload \in UploadFailures
          => /\ lastBatch'.status = "fulfilled"
             /\ lastBatch' # lastBatch => enqueued' = enqueued]_vars

\* An upload has failed after its events were taken, and processBatch settled.
C19_Witness ==
  /\ lastBatch.upload \in UploadFailures
  /\ lastBatch.status = "fulfilled"
  /\ enqueued > 0
  /\ ~isProcessing

\* C20: shutdown() drains the queue: when its promise resolves, no event is
\* left in the queue, no upload is in flight and no flush timer is armed,
\* however many events were pending and also when a batch was in flight at
\* the call.
C20_ShutdownDrains ==
  [][shutdownPc # "resolved" /\ shutdownPc' = "resolved"
       => queue' = 0 /\ uploads' = 0 /\ ~isProcessing' /\ ~flushTimer']_vars

\* C21: the prompt text does not leave through analytics in raw form: the
\* data of a prompt_request event carries the content hash of the prompt, with
\* its length and classification, so two requests whose prompts have the same
\* hash and length, with the same classification and selection, give
\* identical event data.
C21_PromptOnlyHashed ==
  [][\A data \in PromptRequests :
       (TrackPromptRequest(data) /\ tracked # NothingTracked)
         => /\ tracked'.data.promptHash = generateContentHash(data.prompt)
            /\ (/\ generateContentHash(data.prompt) =
                      generateContentHash(tracked.request.prompt)
                 /\ PromptLength(data.prompt) = PromptLength(tracked.request.prompt)
                 /\ data.classification = tracked.request.classification
                 /\ data.modelSelection = tracked.request.modelSelection)
                => tracked'.data = tracked.data]_vars

\* C22: a recommendation completes also when the decision collaborator never
\* answers: the wait for the decision is bounded by a timeout that is handled
\* like any other collaborator failure, so a call that waits for the decision
\* eventually ends (with the fallback selection).
C22_DecisionWaitIsBounded ==
  \A c \in Calls : (calls[c].pc = "deciding") ~> (calls[c].pc = "idle")

\* C23: for every descriptor, each capability score of the profile that
\* createModelProfile produces lies in [0, 1] (inferred scores are clamped at
\* both ends), and so does profileConfidence.
C23_ProfileScoresInUnitInterval ==
  \A i \in 1..Len(profileCache) :
    LET profile == createModelProfile(profileCache[i].id)
    IN  /\ \A category \in PromptTypes :
             Capability(profileCache[i].id, category) \in 0..100
        /\ profile.profileConfidence \in 0..100

\* C24: the keyword classifier returns general with confidence 0.6 when no
\* keyword of any category occurs in the prompt; otherwise the category with
\* the highest weighted score (3, 2, 1 for each high, medium, low keyword
\* found), the first of coding, creative, analytical, reasoning,
\* conversational among those with that score.
C24_KeywordWinnerIsFirstHighest ==
  keywordCall.pc = "done" =>
    LET prompt == keywordCall.prompt
        Found(level) == Cardinality(level \cap prompt)
        Score(i) ==
          3 * Found(CLASSIFICATION_KEYWORDS[ScoreKeys[i]].highSpecificity)
            + 2 * Found(CLASSIFICATION_KEYWORDS[ScoreKeys[i]].mediumSpecificity)
            + Found(CLASSIFICATION_KEYWORDS[ScoreKeys[i]].lowSpecificity)
        Keywords == UNION {CLASSIFICATION_KEYWORDS[ScoreKeys[i]].highSpecificity
                             \cup CLASSIFICATION_KEYWORDS[ScoreKeys[i]].mediumSpecificity
                             \cup CLASSIFICATION_KEYWORDS[ScoreKeys[i]].lowSpecificity :
                           i \in 1..5}
    IN  IF prompt \cap Keywords = {}
          THEN keywordCall.result = [type |-> "general", confidence |-> 600]
          ELSE \E i \in 1..5 :
                 /\ keywordCall.result.type = ScoreKeys[i]
                 /\ \A j \in 1..5 : Score(j) <= Score(i)
                 /\ \A j \in 1..(i - 1) : Score(j) < Score(i)

\* A prompt whose only keyword counts for coding and for creative alike was
\* classified: coding.
C24_Witness ==
  /\ keywordCall.pc = "done"
  /\ keywordCall.prompt = {"write"}
  /\ keywordCall.result.type = "coding"

\* C25: every ModelSelection a recommendation returns has a confidence in
\* [0, 1], also when the value comes from the decision collaborator's answer.
C25_ConfidenceInUnitInterval ==
  (delivered.kind = "rec" /\ delivered.status = "ok")
    => delivered.confidence \in 0..100

\* Both classifiers succeeded and named different categories.
Disagreed ==
  /\ classified.kind = "classify"
  /\ classified.status = "ok"
  /\ classified.semantic = "fulfilled"
  /\ classified.keyword = "fulfilled"
  /\ classified.semanticResult.type # classified.keywordResult.type

C27_NoRefetchWithinTTL ==
  [][\A c \in Calls :
       (/\ Entered(c)
        /\ lastFetched # 0
        /\ now - lastFetched <= CACHE_TTL
        /\ (profileCache # <<>> \/ ~populated))
         => calls'[c].pc = "resolved"]_vars

\* C28: profiles obtained by a fetch that started before a clearCache() call
\* are not installed after that clearCache() has returned: the rebuild of a
\* fetch that was in flight at a clear stores nothing.
C28_ClearNotOverwritten ==
  [][\A c \in Calls :
       (calls[c].pc = "fetching" /\ calls[c].cleared /\ calls'[c].pc = "rebuilt")
         => \A i \in 1..Len(profileCache') :
              profileCache'[i].gen # calls[c].gen]_vars

\* C29: the classification and embedding caches are keyed by content: a get
\* for a text returns only a value that a set stored for the identical text,
\* never one stored for another text.
C29_CachesKeyedByContent ==
  lookup.value # "null" => lookup.storedFor = lookup.text

\* C30: with analytics enabled, every event accepted by enqueue is eventually
\* removed from the queue (taken into a batch that is uploaded or dropped),
\* provided timers fire and every upload settles: once n events have been
\* accepted, the n-th of them leaves the queue, also when it was accepted
\* while a batch was in flight or the queue reached batchSize during an upload.
C30_EveryEventLeavesQueue ==
  \A n \in 1..MaxEvents : (enqueued >= n) ~> (enqueued - queue >= n)

\* An event accepted while a batch was in flight has left the queue.
C30_Witness ==
  /\ acceptedInFlight > 0
  /\ enqueued - queue >= acceptedInFlight

====
